---- MODULE Spec2Model ----
(***************************************************************************)
(* Model of XdsTestClient (framework/test_app/client_app.py): the channelz *)
(* scans find_server_channel_with_state / find_active_xds_channel, the     *)
(* waiters that retry them under an overall timeout, and                   *)
(* get_active_server_channel_socket.                                       *)
(*                                                                         *)
(* Time is in seconds.  A channelz response is modelled by the fields the  *)
(* client reads: a channel's state, its call counters, the list of its     *)
(* subchannels' states and, for get_active_server_channel_socket, the      *)
(* sockets of each subchannel.                                             *)
(***************************************************************************)
EXTENDS Integers, Sequences, FiniteSets, TLC

VARIABLES channels, call, outcome, status, pc, now, last_wait, attempts,
          sleeps, raised, failures, deadlines, relisted, warnings,
          previous

\* channels: what channelz reports; call: the method called and its
\* arguments; outcome: what the last scan (the last probe of a waiter) gave
\* back; previous: what the call before it gave back; status, pc, now,
\* last_wait, attempts, sleeps: the retryer; raised: the RetryError of a
\* waiter; failures: the classes of the failures of the probes so far;
\* deadlines: the deadline_sec values of the channelz RPCs issued so far;
\* relisted: what the second subchannel listing of
\* get_active_server_channel_socket returned; warnings: what it logged at
\* warning level

vars == <<channels, call, outcome, status, pc, now, last_wait, attempts,
          sleeps, raised, failures, deadlines, relisted, warnings,
          previous>>

(***************************************************************************)
(* Bounds of the model.                                                    *)
(***************************************************************************)
\* channels to one target in a snapshot examined by a single scan
MaxChannels == 2
\* subchannels in such a snapshot, all channels together
MaxSubchannels == 2
\* largest value of a call counter
MaxCalls == 1
\* channels to the polled target while a waiter runs
MaxWaitChannels == 1
\* subchannels, all channels together, while a waiter runs
MaxWaitSubchannels == 1
\* the attempt counter stops counting here
MaxAttempts == 3
\* an overall timeout passed by the caller, just above 2 * WaitMax
CallerTimeout == 51
\* a per-call deadline passed by the caller
CallerRpcDeadline == 60
\* sockets in a snapshot, all subchannels together
MaxSockets == 2

(***************************************************************************)
(* Program constants.                                                      *)
(***************************************************************************)
WaitMin == 10
WaitMax == 25
DefaultRpcDeadline == 30
DefaultTimeout == 300

DEFAULT_TD_XDS_URI == "trafficdirector.googleapis.com:443"

\* XdsTestClient.hostname and XdsTestClient.server_target of the instance
hostname == "psm-grpc-client"
server_target == "xds:///psm-grpc-server"
\* an xds_server_uri passed by the caller
CustomXdsUri == "xds.example.com:443"

\* Optional[...] arguments: None, or the value the caller passed
None == <<>>
Some(x) == <<x>>

\* grpc_channelz.ChannelState: the states the scans tell apart by identity.
\* IDLE and SHUTDOWN behave like CONNECTING everywhere in this file.
ChannelState == {"CONNECTING", "READY", "TRANSIENT_FAILURE"}

Min(a, b) == IF a < b THEN a ELSE b

(***************************************************************************)
(* Channelz data.                                                          *)
(***************************************************************************)
SeqsUpTo(S, n) == UNION {[1..k -> S] : k \in 0..n}

RECURSIVE SumLen(_)
SumLen(ss) == IF ss = <<>> THEN 0 ELSE Len(Head(ss)) + SumLen(Tail(ss))

\* _ChannelzChannel: ref.channel_id, data.state.state, data.calls_started,
\* data.calls_failed, and what list_channel_subchannels returns for it
MkChannel(id, st, started, failed, subs) ==
    [channel_id |-> id, state |-> st, calls_started |-> started,
     calls_failed |-> failed, subchannels |-> subs]

\* _ChannelzSubchannel: its position in the listing and data.state.state
MkSubchannels(states) ==
    [j \in 1..Len(states) |-> [subchannel_id |-> j, state |-> states[j]]]

\* lists of k <<state, subchannel states>> pairs with at most maxSub
\* subchannels in all
RECURSIVE ChannelLists(_, _)
ChannelLists(k, maxSub) ==
    IF k = 0 THEN {<<>>}
    ELSE UNION {{<<<<st, subs>>>> \o rest :
                   rest \in ChannelLists(k - 1, maxSub - Len(subs))} :
                <<st, subs>> \in ChannelState \X SeqsUpTo(ChannelState, maxSub)}

\* channels to the server target: the scan reads state and subchannels
ServerSnapshots(maxCh, maxSub) ==
    {[i \in 1..Len(l) |-> MkChannel(i, l[i][1], 0, 0, MkSubchannels(l[i][2]))] :
        l \in UNION {ChannelLists(k, maxSub) : k \in 0..maxCh}}

\* the number of subchannels of a snapshot
Subchannels(chs) == SumLen([i \in DOMAIN chs |-> chs[i].subchannels])

\* _ChannelzSocket: ref.socket_id, unique in the snapshot; the n sockets of
\* subchannel j of channel i
MkSockets(i, j, n) == [k \in 1..n |-> [socket_id |-> <<i, j, k>>]]

RECURSIVE Sum(_)
Sum(ns) == IF ns = <<>> THEN 0 ELSE Head(ns) + Sum(Tail(ns))

\* the number of subchannels listed before those of channel i
Offset(chs, i) == SumLen([k \in 1..(i - 1) |-> chs[k].subchannels])

\* the snapshot chs, subchannel number n (counted through all channels)
\* having counts[n] sockets: what list_subchannels_sockets returns for it
WithSockets(chs, counts) ==
    [i \in DOMAIN chs |->
        [chs[i] EXCEPT !.subchannels =
            [j \in DOMAIN chs[i].subchannels |->
                [subchannel_id |-> j,
                 state |-> chs[i].subchannels[j].state,
                 sockets |-> MkSockets(i, j, counts[Offset(chs, i) + j])]]]]

\* the numbers of sockets the subchannels of chs can have, at most maxSock
\* in all
SocketCounts(chs, maxSock) ==
    {c \in [1..Subchannels(chs) -> 0..maxSock] : Sum(c) <= maxSock}

\* call counters channelz can report: no more failed calls than started ones
CallCounts == {c \in (0..MaxCalls) \X (0..MaxCalls) : c[2] <= c[1]}

\* channels to the xDS control plane: the scan reads state and call counters
XdsSnapshots(maxCh) ==
    {[i \in 1..Len(sts) |->
        MkChannel(i, sts[i], cnt[i][1], cnt[i][2], <<>>)] :
        <<sts, cnt>> \in UNION {[1..k -> ChannelState] \X [1..k -> CallCounts] :
                                k \in 0..maxCh}}

(***************************************************************************)
(* Exceptions.                                                             *)
(***************************************************************************)
\* GrpcApp.NotFound, raised by find_subchannel_with_state and
\* check_channel_successful_calls
NotFound == [cls |-> "NotFound"]

\* a transport failure of a channelz RPC (grpc.RpcError)
RpcError == [cls |-> "RpcError"]

ChannelNotFound(src, dst, expected_state) ==
    [cls |-> "ChannelNotFound", src |-> src, dst |-> dst,
     expected_state |-> expected_state]

ChannelNotActive(src, dst) ==
    [cls |-> "ChannelNotActive", src |-> src, dst |-> dst]

\* the class and its base classes
Mro(cls) ==
    CASE cls = "ChannelNotFound" -> {"ChannelNotFound", "NotFound", "Exception"}
      [] cls = "ChannelNotActive" -> {"ChannelNotActive", "NotFound", "Exception"}
      [] cls = "NotFound" -> {"NotFound", "Exception"}
      [] OTHER -> {cls, "Exception"}

isinstance(exc, cls) == cls \in Mro(exc.cls)

(***************************************************************************)
(* What a call gives back: a value, or the exception it raised; rpcs is    *)
(* the number of channelz RPCs the call issued.                            *)
(***************************************************************************)
NoValue == [channel_id |-> 0]
NoException == [cls |-> "none"]

Return(value, rpcs) ==
    [ok |-> TRUE, value |-> value, exc |-> NoException, rpcs |-> rpcs]
Raise(exc, rpcs) ==
    [ok |-> FALSE, value |-> NoValue, exc |-> exc, rpcs |-> rpcs]

NoOutcome == [ok |-> FALSE, value |-> NoValue, exc |-> NoException, rpcs |-> 0]

(***************************************************************************)
(* The scans.  `fail` is the position, among the channelz RPCs the call    *)
(* issues, of the one that fails in the transport (0: none does).          *)
(***************************************************************************)
\* get_server_channels: channelz.find_channels_for_target(server_target)
get_server_channels(chs, fail) ==
    IF fail = 1 THEN Raise(RpcError, 1) ELSE Return(chs, 1)

\* the first subchannel of the listing in the given state
RECURSIVE FirstSubchannel(_, _, _)
FirstSubchannel(subchannels, j, state) ==
    IF j > Len(subchannels) THEN 0
    ELSE IF subchannels[j].state = state THEN j
    ELSE FirstSubchannel(subchannels, j + 1, state)

\* find_subchannel_with_state reporting a failed listing as a miss
find_subchannel_swallowing_errors(channel, state, rpcs, fail) ==
    LET j == FirstSubchannel(channel.subchannels, 1, state) IN
    IF rpcs # fail /\ j # 0 THEN Return(channel.subchannels[j], rpcs)
    ELSE Raise(NotFound, rpcs)

\* find_subchannel_with_state with the loop cut to the first subchannel
find_subchannel_first_only(channel, state, rpcs, fail) ==
    IF rpcs = fail THEN Raise(RpcError, rpcs)
    ELSE IF Len(channel.subchannels) > 0
            /\ channel.subchannels[1].state = state
         THEN Return(channel.subchannels[1], rpcs)
         ELSE Raise(NotFound, rpcs)

\* find_subchannel_with_state(channel, state, **kwargs), issued as RPC
\* number `rpcs`
find_subchannel_with_state(channel, state, rpcs, fail) ==
    IF rpcs = fail THEN Raise(RpcError, rpcs)
    ELSE LET j == FirstSubchannel(channel.subchannels, 1, state) IN
         IF j # 0 THEN Return(channel.subchannels[j], rpcs)
         ELSE Raise(NotFound, rpcs)

\* the loop of find_server_channel_with_state from channel i on, `rpcs`
\* RPCs having been issued so far
RECURSIVE ScanServerChannels(_, _, _, _, _, _)

\* the loop listing the subchannels of every channel, whatever its state
ScanListsEveryChannel(chs, i, expected_state, check_subchannel, rpcs, fail) ==
    IF i > Len(chs)
    THEN Raise(ChannelNotFound(hostname, server_target, expected_state), rpcs)
    ELSE LET channel == chs[i]
             sub == find_subchannel_with_state(
                        channel, expected_state, rpcs + 1, fail) IN
         IF ~sub.ok /\ ~isinstance(sub.exc, "NotFound")
         THEN Raise(sub.exc, sub.rpcs)
         ELSE IF channel.state = expected_state /\ sub.ok
         THEN Return(channel, sub.rpcs)
         ELSE ScanServerChannels(chs, i + 1, expected_state,
                                 check_subchannel, sub.rpcs, fail)

\* the loop checking the subchannels whatever check_subchannel says
ScanIgnoresCheckSubchannel(chs, i, expected_state, check_subchannel, rpcs, fail) ==
    IF i > Len(chs)
    THEN Raise(ChannelNotFound(hostname, server_target, expected_state), rpcs)
    ELSE LET channel == chs[i] IN
         IF channel.state = expected_state
         THEN LET sub == find_subchannel_with_state(
                             channel, expected_state, rpcs + 1, fail) IN
              IF sub.ok THEN Return(channel, sub.rpcs)
              ELSE IF isinstance(sub.exc, "NotFound")
              THEN ScanServerChannels(chs, i + 1, expected_state,
                                      check_subchannel, sub.rpcs, fail)
              ELSE Raise(sub.exc, sub.rpcs)
         ELSE ScanServerChannels(chs, i + 1, expected_state,
                                 check_subchannel, rpcs, fail)

\* the loop with `continue` lost: a channel in the expected state without a
\* subchannel in that state ends the scan
ScanStopsAtFirstMiss(chs, i, expected_state, check_subchannel, rpcs, fail) ==
    IF i > Len(chs)
    THEN Raise(ChannelNotFound(hostname, server_target, expected_state), rpcs)
    ELSE LET channel == chs[i] IN
         IF channel.state = expected_state
         THEN IF check_subchannel
              THEN LET sub == find_subchannel_with_state(
                                  channel, expected_state, rpcs + 1, fail) IN
                   IF sub.ok THEN Return(channel, sub.rpcs)
                   ELSE IF isinstance(sub.exc, "NotFound")
                   THEN Raise(ChannelNotFound(hostname, server_target,
                                              expected_state), sub.rpcs)
                   ELSE Raise(sub.exc, sub.rpcs)
              ELSE Return(channel, rpcs)
         ELSE ScanServerChannels(chs, i + 1, expected_state,
                                 check_subchannel, rpcs, fail)

ScanServerChannels(chs, i, expected_state, check_subchannel, rpcs, fail) ==
    IF i > Len(chs)
    THEN Raise(ChannelNotFound(hostname, server_target, expected_state), rpcs)
    ELSE LET channel == chs[i] IN
         IF channel.state = expected_state
         THEN IF check_subchannel
              THEN LET sub == find_subchannel_with_state(
                                  channel, expected_state, rpcs + 1, fail) IN
                   IF sub.ok THEN Return(channel, sub.rpcs)
                   ELSE IF isinstance(sub.exc, "NotFound")
                   THEN ScanServerChannels(chs, i + 1, expected_state,
                                           check_subchannel, sub.rpcs, fail)
                   ELSE Raise(sub.exc, sub.rpcs)
              ELSE Return(channel, rpcs)
         ELSE ScanServerChannels(chs, i + 1, expected_state,
                                 check_subchannel, rpcs, fail)

find_server_channel_with_state(chs, expected_state, check_subchannel, fail) ==
    LET listed == get_server_channels(chs, fail) IN
    IF ~listed.ok THEN listed
    ELSE ScanServerChannels(listed.value, 1, expected_state,
                            check_subchannel, listed.rpcs, fail)

\* check_channel_successful_calls with the two counters exchanged
check_channel_calls_swapped(channel, rpcs) ==
    IF channel.state = "READY" /\ channel.calls_failed > channel.calls_started
    THEN Return(channel, rpcs)
    ELSE Raise(NotFound, rpcs)

\* check_channel_successful_calls with >= for >
check_channel_calls_not_strict(channel, rpcs) ==
    IF channel.state = "READY" /\ channel.calls_started >= channel.calls_failed
    THEN Return(channel, rpcs)
    ELSE Raise(NotFound, rpcs)

\* check_channel_successful_calls(channel)
check_channel_successful_calls(channel, rpcs) ==
    IF channel.state = "READY" /\ channel.calls_started > channel.calls_failed
    THEN Return(channel, rpcs)
    ELSE Raise(NotFound, rpcs)

\* the loop of find_active_xds_channel from channel i on
RECURSIVE ScanXdsChannels(_, _, _, _)
ScanXdsChannels(chs, i, xds_server_uri, rpcs) ==
    IF i > Len(chs)
    THEN Raise(ChannelNotActive(hostname, xds_server_uri), rpcs)
    ELSE LET checked == check_channel_successful_calls(chs[i], rpcs) IN
         IF checked.ok THEN checked
         ELSE IF isinstance(checked.exc, "NotFound")
         THEN ScanXdsChannels(chs, i + 1, xds_server_uri, rpcs)
         ELSE checked

find_active_xds_channel(chs, xds_server_uri, fail) ==
    LET listed == get_server_channels(chs, fail) IN
    IF ~listed.ok THEN listed
    ELSE ScanXdsChannels(listed.value, 1, xds_server_uri, listed.rpcs)

(***************************************************************************)
(* Calls.                                                                  *)
(***************************************************************************)
MkCall(op, expected_state, check_subchannel, xds_server_uri, timeout, rpc_deadline, fail) ==
    [op |-> op, expected_state |-> expected_state,
     check_subchannel |-> check_subchannel, xds_server_uri |-> xds_server_uri,
     timeout |-> timeout, rpc_deadline |-> rpc_deadline, fail |-> fail]

NoCall == MkCall("none", "READY", TRUE, None, None, None, 0)

NoRaised == [exc |-> NoException, notes |-> {}]

(***************************************************************************)
(* SpecFind: one scan over one snapshot.                                   *)
(***************************************************************************)
InitFind ==
    /\ channels \in ServerSnapshots(MaxChannels, MaxSubchannels)
                      \cup XdsSnapshots(MaxChannels)
    /\ call = NoCall
    /\ outcome = NoOutcome
    /\ status = "NONE"
    /\ pc = "call"
    /\ now = 0
    /\ last_wait = 0
    /\ attempts = 0
    /\ sleeps = 0
    /\ raised = NoRaised
    /\ failures = {}
    /\ deadlines = {}
    /\ relisted = <<>>
    /\ warnings = {}
    /\ previous = NoOutcome

\* find_server_channel_with_state(expected_state, check_subchannel=...)
FindServerChannelWithState ==
    /\ pc = "call"
    /\ \E expected_state \in ChannelState, check_subchannel \in BOOLEAN,
          fail \in 0..(MaxChannels + 1) :
         /\ call' = MkCall("find_server_channel_with_state", expected_state,
                           check_subchannel, None, None, None, fail)
         /\ outcome' = find_server_channel_with_state(
                           channels, expected_state, check_subchannel, fail)
    /\ pc' = "done"
    /\ UNCHANGED <<channels, status, now, last_wait, attempts, sleeps, raised,
                   failures, deadlines, relisted, warnings, previous>>

\* find_active_xds_channel(xds_server_uri)
FindActiveXdsChannel ==
    /\ pc = "call"
    /\ \E xds_server_uri \in {DEFAULT_TD_XDS_URI, CustomXdsUri}, fail \in 0..1 :
         /\ call' = MkCall("find_active_xds_channel", "READY", FALSE,
                           Some(xds_server_uri), None, None, fail)
         /\ outcome' = find_active_xds_channel(channels, xds_server_uri, fail)
    /\ pc' = "done"
    /\ UNCHANGED <<channels, status, now, last_wait, attempts, sleeps, raised,
                   failures, deadlines, relisted, warnings, previous>>

NextFind == FindServerChannelWithState \/ FindActiveXdsChannel

SpecFind == InitFind /\ [][NextFind]_vars

(***************************************************************************)
(* get_active_server_channel_socket.                                       *)
(***************************************************************************)
IndexError == [cls |-> "IndexError"]
ValueError == [cls |-> "ValueError"]

WarnSubchannels == "Unexpected subchannels"
WarnSockets == "Unexpected sockets"

\* an unpacking that takes the last element
UnpackLast(items) ==
    [first |-> items[Len(items)], rest |-> SubSeq(items, 1, Len(items) - 1)]

\* an unpacking that takes the element after the one returned last time
UnpackRotating(items) ==
    IF outcome.ok /\ Len(items) > 1
    THEN [first |-> items[2], rest |-> <<items[1]>> \o SubSeq(items, 3, Len(items))]
    ELSE [first |-> Head(items), rest |-> Tail(items)]

\* first, *rest = list(items), for a list that is not empty
Unpack(items) == [first |-> Head(items), rest |-> Tail(items)]

\* what the call gives back and what it logged at warning level
Logged(out, warned) == [out |-> out, warnings |-> warned]

\* get_active_server_channel_socket() on the snapshot chs; `subchannels` is
\* what the second listing of the subchannels of the channel returns
get_active_server_channel_socket(chs, subchannels, fail) ==
    LET found == find_server_channel_with_state(chs, "READY", TRUE, fail) IN
    IF ~found.ok THEN Logged(found, {})
    ELSE IF found.value.subchannels = <<>>
    THEN Logged(Raise(IndexError, found.rpcs), {})
    ELSE IF fail = found.rpcs + 1
    THEN Logged(Raise(RpcError, found.rpcs + 1), {})
    ELSE IF subchannels = <<>>
    THEN Logged(Raise(ValueError, found.rpcs + 1), {})
    ELSE LET subs == Unpack(subchannels)
             warned == IF subs.rest # <<>> THEN {WarnSubchannels} ELSE {} IN
         IF fail = found.rpcs + 2
         THEN Logged(Raise(RpcError, found.rpcs + 2), warned)
         ELSE IF subs.first.sockets = <<>>
         THEN Logged(Raise(ValueError, found.rpcs + 2), warned)
         ELSE LET socks == Unpack(subs.first.sockets) IN
              Logged(Return(socks.first, found.rpcs + 2),
                     warned \cup IF socks.rest # <<>> THEN {WarnSockets}
                                 ELSE {})

\* what the second listing can return for a channel: its subchannels, or
\* nothing when they were closed in between
Relistings(channel) == {channel.subchannels, <<>>}

InitSocket ==
    /\ \E chs \in ServerSnapshots(MaxChannels, MaxSubchannels) :
         \E counts \in SocketCounts(chs, MaxSockets) :
            channels = WithSockets(chs, counts)
    /\ call = NoCall
    /\ outcome = NoOutcome
    /\ status = "NONE"
    /\ pc = "call"
    /\ now = 0
    /\ last_wait = 0
    /\ attempts = 0
    /\ sleeps = 0
    /\ raised = NoRaised
    /\ failures = {}
    /\ deadlines = {}
    /\ relisted = <<>>
    /\ warnings = {}
    /\ previous = NoOutcome

\* get_active_server_channel_socket(), called a first time, and a second
\* time by a caller to which the first call returned a socket
GetActiveServerChannelSocket ==
    /\ \/ pc = "call"
       \/ pc = "done" /\ outcome.ok /\ previous = NoOutcome
    /\ \E fail \in 0..(MaxChannels + 3) :
         LET found == find_server_channel_with_state(
                          channels, "READY", TRUE, fail) IN
         \E subchannels \in IF found.ok THEN Relistings(found.value)
                             ELSE {<<>>} :
            LET result == get_active_server_channel_socket(
                              channels, subchannels, fail) IN
            /\ call' = MkCall("get_active_server_channel_socket", "READY",
                              TRUE, None, None, None, fail)
            /\ relisted' = subchannels
            /\ outcome' = result.out
            /\ warnings' = result.warnings
    /\ previous' = outcome
    /\ pc' = "done"
    /\ UNCHANGED <<channels, status, now, last_wait, attempts, sleeps, raised,
                   failures, deadlines>>

NextSocket == GetActiveServerChannelSocket

SpecSocket == InitSocket /\ [][NextSocket]_vars

(***************************************************************************)
(* The waiters.                                                            *)
(***************************************************************************)
ServerWaiters == {"wait_for_server_channel_state",
                  "wait_for_server_channel_ready"}
XdsWaiters == {"wait_for_xds_channel_active", "wait_for_active_xds_channel"}

\* the per-call deadline taken from the overall timeout
RpcDeadlineFromTimeout(c) ==
    IF c.timeout = None THEN DefaultTimeout ELSE c.timeout[1]

\* rpc_deadline of the waiters: 30 seconds unless the caller passes one
RpcDeadline(c) ==
    IF c.rpc_deadline = None THEN DefaultRpcDeadline ELSE c.rpc_deadline[1]

\* timeout of the retryer: 5 minutes unless the caller passes one
Timeout(c) == IF c.timeout = None THEN DefaultTimeout ELSE c.timeout[1]

\* xds_server_uri of wait_for_xds_channel_active
XdsServerUri(c) ==
    IF c.xds_server_uri = None THEN DEFAULT_TD_XDS_URI
    ELSE c.xds_server_uri[1]

\* the state wait_for_server_channel_state polls for;
\* wait_for_server_channel_ready passes READY
ExpectedState(c) ==
    IF c.op = "wait_for_server_channel_ready" THEN "READY"
    ELSE c.expected_state

\* the server waiters polling with check_subchannel=False
ProbeWithoutSubchannelCheck(c, chs, fail) ==
    IF c.op \in ServerWaiters
    THEN find_server_channel_with_state(chs, ExpectedState(c), FALSE, fail)
    ELSE find_active_xds_channel(chs, XdsServerUri(c), fail)

\* rpc_params of the scans: deadline_sec, in seconds, when the scan is
\* given an rpc_deadline; every channelz RPC of the scan is issued with it
rpc_params(rpc_deadline) ==
    IF rpc_deadline # None THEN Some(rpc_deadline[1]) ELSE None

\* the deadline_sec arguments of the RPCs of one probe: the waiter calls
\* the scan with rpc_deadline=rpc_deadline
ProbeDeadlines(c, rpcs) ==
    IF rpcs = 0 THEN {} ELSE {rpc_params(Some(RpcDeadline(c)))}

\* the function the waiter hands to the retryer, called on what channelz
\* reports at the time of the attempt
Probe(c, chs, fail) ==
    IF c.op \in ServerWaiters
    THEN find_server_channel_with_state(chs, ExpectedState(c), TRUE, fail)
    ELSE find_active_xds_channel(chs, XdsServerUri(c), fail)

NoteServer == "The client couldn't connect to the server."
NoteXds == "The client couldn't connect to the xDS control plane."

\* the except clause without its isinstance test
wait_for_server_channel_ready_any(exc) == {NoteServer}

\* the except clause looking at the failures of the earlier attempts too
wait_for_server_channel_ready_any_attempt(exc) ==
    IF isinstance(exc, "ChannelNotFound") \/ "ChannelNotFound" \in failures
    THEN {NoteServer} ELSE {}

\* the except clause of wait_for_server_channel_ready: the notes added to
\* the RetryError whose last failure is exc
wait_for_server_channel_ready(exc) ==
    IF isinstance(exc, "ChannelNotFound") THEN {NoteServer} ELSE {}

\* the except clause of wait_for_active_xds_channel
wait_for_active_xds_channel(exc) ==
    IF isinstance(exc, "ChannelNotFound") THEN {NoteXds} ELSE {}

\* a RetryError that reports every failure as a missing channel
RetryErrorSynthesized(c, exc) ==
    [exc |-> IF c.op \in ServerWaiters
             THEN ChannelNotFound(hostname, server_target, ExpectedState(c))
             ELSE ChannelNotActive(hostname, XdsServerUri(c)),
     notes |-> {}]

\* the RetryError as the caller of the waiter receives it
RetryError(c, exc) ==
    [exc |-> exc,
     notes |-> CASE c.op = "wait_for_server_channel_ready" ->
                      wait_for_server_channel_ready(exc)
                 [] c.op = "wait_for_active_xds_channel" ->
                      wait_for_active_xds_channel(exc)
                 [] OTHER -> {}]

(***************************************************************************)
(* retryers.exponential_retryer_with_timeout(wait_min, wait_max, timeout): *)
(* attempts separated by waits that never shrink and stay within           *)
(* [wait_min, wait_max]; the timeout is looked at between attempts only.   *)
(***************************************************************************)
\* how long an attempt that issued `rpcs` RPCs can take: each RPC returns at
\* once or runs up to its deadline
ProbeDurations(rpcs, deadline) == {k * deadline : k \in 0..rpcs}

\* the retryer built with wait_min=0
WaitsFromZero(last) == {w \in {0, WaitMax} : w >= last}

\* the retryer built with wait_max ten times too long
WaitsTooLong(last) == {w \in {WaitMin, 10 * WaitMax} : w >= last}

\* the waits the retryer may choose after a wait of `last`
Waits(last) == {w \in {WaitMin, WaitMax} : w >= last}

\* the overall timeout has elapsed
TimedOut(t, c) == t >= Timeout(c)

\* the attempt counter saturates
Count(n) == Min(n + 1, MaxAttempts)

\* The calls of the waiters.  The overall timeout is always passed: the
\* default of 5 minutes differs from it only in the number of attempts.
WaitCalls ==
    {MkCall("wait_for_server_channel_state", st, TRUE, None, t, d, 0) :
        st \in ChannelState, t \in {Some(CallerTimeout)},
        d \in {None, Some(CallerRpcDeadline)}}
    \cup
    {MkCall("wait_for_server_channel_ready", "READY", TRUE, None, t, d, 0) :
        t \in {Some(CallerTimeout)},
        d \in {None, Some(CallerRpcDeadline)}}
    \cup
    {MkCall(op, "READY", FALSE, uri, t, d, 0) :
        op \in XdsWaiters, uri \in {None, Some(CustomXdsUri)},
        t \in {Some(CallerTimeout)},
        d \in {None, Some(CallerRpcDeadline)}}

\* what channelz can report for the target the waiter polls
WaitSnapshots(c) ==
    IF c.op \in ServerWaiters
    THEN ServerSnapshots(MaxWaitChannels, MaxWaitSubchannels)
    ELSE XdsSnapshots(MaxWaitChannels)

InitWait ==
    /\ call \in WaitCalls
    /\ channels \in WaitSnapshots(call)
    /\ outcome = NoOutcome
    /\ status = "POLLING"
    /\ pc = "probe"
    /\ now = 0
    /\ last_wait = 0
    /\ attempts = 0
    /\ sleeps = 0
    /\ raised = NoRaised
    /\ failures = {}
    /\ deadlines = {}
    /\ relisted = <<>>
    /\ warnings = {}
    /\ previous = NoOutcome

\* Between two attempts the channels of the client change: each poll sees
\* a snapshot unrelated to the one before.
EnvGuard ==
    /\ status = "POLLING"
    /\ pc = "probe"
    /\ attempts > 0

EnvFrame == UNCHANGED <<call, outcome, status, pc, now, last_wait, attempts,
                        sleeps, raised, failures, deadlines, relisted,
                        warnings, previous>>

\* a new channel to the target is created
ChannelAppears ==
    /\ EnvGuard
    /\ Len(channels) < MaxWaitChannels
    /\ \E st \in ChannelState :
         channels' = Append(channels,
                            MkChannel(Len(channels) + 1, st, 0, 0, <<>>))
    /\ EnvFrame

\* a channel is closed; the listing numbers the remaining ones anew
ChannelDisappears ==
    /\ EnvGuard
    /\ \E i \in DOMAIN channels :
         channels' = [k \in 1..(Len(channels) - 1) |->
                        IF k < i THEN channels[k]
                        ELSE [channels[k + 1] EXCEPT !.channel_id = k]]
    /\ EnvFrame

\* a channel moves to another connectivity state
ChannelChangesState ==
    /\ EnvGuard
    /\ \E i \in DOMAIN channels, st \in ChannelState :
         /\ st # channels[i].state
         /\ channels' = [channels EXCEPT ![i].state = st]
    /\ EnvFrame

\* the subchannels of a channel to the server are replaced
SubchannelsChange ==
    /\ EnvGuard
    /\ call.op \in ServerWaiters
    /\ \E i \in DOMAIN channels,
          sts \in SeqsUpTo(ChannelState, MaxWaitSubchannels) :
         /\ MkSubchannels(sts) # channels[i].subchannels
         /\ channels' = [channels EXCEPT ![i].subchannels = MkSubchannels(sts)]
         /\ Subchannels(channels') <= MaxWaitSubchannels
    /\ EnvFrame

\* calls are started or fail on a channel to the control plane
CallsChange ==
    /\ EnvGuard
    /\ call.op \in XdsWaiters
    /\ \E i \in DOMAIN channels, c \in CallCounts :
         /\ c[1] >= channels[i].calls_started
         /\ c[2] >= channels[i].calls_failed
         /\ c # <<channels[i].calls_started, channels[i].calls_failed>>
         /\ channels' = [channels EXCEPT ![i].calls_started = c[1],
                                         ![i].calls_failed = c[2]]
    /\ EnvFrame

\* an attempt after which the retryer sleeps even when the probe returned
ProbingSleepsAfterSuccess ==
    /\ status = "POLLING"
    /\ pc = "probe"
    /\ \E fail \in 0..(Len(channels) + 1) :
         LET out == Probe(call, channels, fail) IN
         \E d \in ProbeDurations(out.rpcs, RpcDeadline(call)) :
            /\ now' = now + d
            /\ outcome' = out
            /\ deadlines' = deadlines \cup ProbeDeadlines(call, out.rpcs)
            /\ IF out.ok
               THEN /\ status' = "SUCCESS"
                    /\ pc' = "sleep"
                    /\ raised' = raised
               ELSE IF TimedOut(now + d, call)
               THEN /\ status' = "EXHAUSTED"
                    /\ pc' = "done"
                    /\ raised' = RetryError(call, out.exc)
               ELSE /\ status' = status
                    /\ pc' = "sleep"
                    /\ raised' = raised
    /\ attempts' = Count(attempts)
    /\ UNCHANGED <<channels, call, last_wait, sleeps, relisted, warnings,
                   previous>>

\* one attempt of the retryer: the probe runs to its end, then the retryer
\* returns its value, gives up, or goes to sleep
Probing ==
    /\ status = "POLLING"
    /\ pc = "probe"
    /\ \E fail \in 0..(Len(channels) + 1) :
         LET out == Probe(call, channels, fail) IN
         \E d \in ProbeDurations(out.rpcs, RpcDeadline(call)) :
            /\ now' = now + d
            /\ outcome' = out
            /\ deadlines' = deadlines \cup ProbeDeadlines(call, out.rpcs)
            /\ IF out.ok
               THEN /\ status' = "SUCCESS"
                    /\ pc' = "done"
                    /\ raised' = raised
               ELSE IF TimedOut(now + d, call)
               THEN /\ status' = "EXHAUSTED"
                    /\ pc' = "done"
                    /\ raised' = RetryError(call, out.exc)
               ELSE /\ status' = status
                    /\ pc' = "sleep"
                    /\ raised' = raised
    /\ attempts' = Count(attempts)
    /\ UNCHANGED <<channels, call, last_wait, sleeps, relisted, warnings,
                   previous>>

\* an attempt; the retryer keeps no record of the failures before the last
Attempt == Probing /\ UNCHANGED failures

\* an attempt, with the class of its failure added to the history
AttemptLogged ==
    /\ Probing
    /\ failures' = IF outcome'.ok THEN failures
                   ELSE failures \cup {outcome'.exc.cls}

\* the wait between two attempts; it ends when the overall timeout does
Sleep ==
    /\ status = "POLLING"
    /\ pc = "sleep"
    /\ \E w \in Waits(last_wait) :
         /\ last_wait' = w
         /\ now' = Min(now + w, Timeout(call))
         /\ IF TimedOut(Min(now + w, Timeout(call)), call)
            THEN /\ status' = "EXHAUSTED"
                 /\ pc' = "done"
                 /\ raised' = RetryError(call, outcome.exc)
            ELSE /\ status' = status
                 /\ pc' = "probe"
                 /\ raised' = raised
    /\ sleeps' = Count(sleeps)
    /\ UNCHANGED <<channels, call, outcome, attempts, failures, deadlines,
                   relisted, warnings, previous>>

NextWait ==
    \/ ChannelAppears
    \/ ChannelDisappears
    \/ ChannelChangesState
    \/ SubchannelsChange
    \/ CallsChange
    \/ Attempt
    \/ Sleep

SpecWait == InitWait /\ [][NextWait]_vars

\* A waiter of a client whose channels do not change while it polls, with
\* the history of the failures of its probes.
NextStatic == AttemptLogged \/ Sleep

SpecStatic == InitWait /\ [][NextStatic]_vars

\* A waiter of a client that never has a channel to the polled target: every
\* snapshot is empty.  The retryer is a loop of one thread and keeps running.
InitEmpty == InitWait /\ channels = <<>>

NextEmpty == Attempt \/ Sleep

LiveSpecEmpty ==
    InitEmpty /\ [][NextEmpty]_vars /\ WF_vars(Attempt) /\ WF_vars(Sleep)

(***************************************************************************)
(* Properties of the scans.                                                *)
(***************************************************************************)
Done(op) == pc = "done" /\ call.op = op

\* no channelz RPC of the call failed in the transport
NoTransportFailure == outcome.exc.cls # "RpcError"

HasSubchannelInState(channel, state) ==
    \E j \in DOMAIN channel.subchannels : channel.subchannels[j].state = state

\* channel i of the snapshot is what the call asked for
Qualifies(i) ==
    /\ channels[i].state = call.expected_state
    /\ call.check_subchannel
         => HasSubchannelInState(channels[i], call.expected_state)

Qualifying == {i \in DOMAIN channels : Qualifies(i)}

Active == {i \in DOMAIN channels :
             /\ channels[i].state = "READY"
             /\ channels[i].calls_started > channels[i].calls_failed}

First(S) == CHOOSE i \in S : \A k \in S : i <= k

\* C1: with check_subchannel=True, when some channel of the snapshot is in
\* the expected state and has a subchannel in that state,
\* find_server_channel_with_state returns the first such channel in snapshot
\* order; the channels before it do not qualify and were skipped.
C1_ReturnsFirstQualifying ==
    (/\ Done("find_server_channel_with_state")
     /\ call.check_subchannel
     /\ NoTransportFailure
     /\ Qualifying # {})
    => /\ outcome.ok
       /\ outcome.value = channels[First(Qualifying)]
       /\ \A k \in 1..(outcome.value.channel_id - 1) :
             \/ channels[k].state # call.expected_state
             \/ ~HasSubchannelInState(channels[k], call.expected_state)

\* a channel in the expected state without a subchannel in that state was
\* skipped and the next channel returned
C1_Witness ==
    /\ Done("find_server_channel_with_state")
    /\ call.check_subchannel
    /\ outcome.ok
    /\ outcome.value.channel_id = 2
    /\ channels[1].state = call.expected_state
    /\ Len(channels[1].subchannels) = 1

\* C2: find_active_xds_channel returns the first channel in snapshot order
\* that is READY with calls_started > calls_failed, and raises
\* ChannelNotActive when the snapshot has none (an empty snapshot, or READY
\* channels with calls_started = calls_failed, 0 = 0 included).
C2_ReturnsFirstActive ==
    (Done("find_active_xds_channel") /\ NoTransportFailure)
    => IF Active # {}
       THEN outcome.ok /\ outcome.value = channels[First(Active)]
       ELSE ~outcome.ok /\ outcome.exc.cls = "ChannelNotActive"

\* a READY channel with calls_started = calls_failed was passed over
C2_Witness ==
    /\ Done("find_active_xds_channel")
    /\ Len(channels) = 2
    /\ channels[1].state = "READY"
    /\ channels[1].calls_started = channels[1].calls_failed
    /\ outcome.ok
    /\ outcome.value.channel_id = 2

\* C3: find_server_channel_with_state raises ChannelNotFound exactly when no
\* channel of the snapshot qualifies (the empty snapshot included), never
\* while a later channel would qualify, and the error carries src = hostname,
\* dst = server_target and expected_state = the state asked for.
C3_ChannelNotFoundAfterFullScan ==
    (Done("find_server_channel_with_state") /\ NoTransportFailure)
    => /\ (~outcome.ok) <=> (Qualifying = {})
       /\ (~outcome.ok) =>
            outcome.exc = [cls |-> "ChannelNotFound", src |-> hostname,
                           dst |-> server_target,
                           expected_state |-> call.expected_state]

\* ChannelNotFound after a scan that passed a channel in the expected state
\* with no subchannel in that state and then a channel in another state
C3_Witness ==
    /\ Done("find_server_channel_with_state")
    /\ Len(channels) = 2
    /\ channels[1].state = call.expected_state
    /\ channels[2].state # call.expected_state
    /\ call.check_subchannel
    /\ outcome.exc.cls = "ChannelNotFound"

(***************************************************************************)
(* Properties of the waiters.                                              *)
(***************************************************************************)
\* the channels of the snapshot that satisfy the waiter
WaitQualifying ==
    IF call.op \in ServerWaiters
    THEN {i \in DOMAIN channels :
            /\ channels[i].state = ExpectedState(call)
            /\ HasSubchannelInState(channels[i], ExpectedState(call))}
    ELSE Active

\* this step is an attempt of the retryer
AttemptStep == pc = "probe" /\ pc' # "probe"

\* C4: when wait_for_active_xds_channel exhausts its timeout and the last
\* probe failed with ChannelNotActive, the error raised carries the note
\* that the client could not connect to the xDS control plane.
C4_NoteOnChannelNotActive ==
    (/\ call.op = "wait_for_active_xds_channel"
     /\ status = "EXHAUSTED"
     /\ raised.exc.cls = "ChannelNotActive")
    => NoteXds \in raised.notes

\* C5 as claimed: a server waiter, whatever state it polls for, raises on
\* exhaustion an error that carries the "couldn't connect to the server"
\* note if and only if the last failure was ChannelNotFound.
C5_NoteForEveryState ==
    (call.op \in ServerWaiters /\ status = "EXHAUSTED")
    => (NoteServer \in raised.notes <=> raised.exc.cls = "ChannelNotFound")

\* C5 amended: on exhaustion wait_for_server_channel_ready (which polls for
\* READY) raises an error carrying the note if and only if the last failure
\* was ChannelNotFound; wait_for_server_channel_state, for every state,
\* raises an error without note.
C5_NoteOnlyFromReadyWaiter ==
    status = "EXHAUSTED" =>
       /\ call.op = "wait_for_server_channel_ready"
            => /\ NoteServer \in raised.notes
                    <=> raised.exc.cls = "ChannelNotFound"
               /\ raised.notes \subseteq {NoteServer}
       /\ call.op = "wait_for_server_channel_state" => raised.notes = {}

\* wait_for_server_channel_ready gave up after probes that found no READY
\* channel, and its error carries the note
C5_Witness ==
    /\ call.op = "wait_for_server_channel_ready"
    /\ status = "EXHAUSTED"
    /\ raised.exc.cls = "ChannelNotFound"
    /\ raised.notes = {NoteServer}
    /\ attempts >= 2

\* C6: a waiter leaves POLLING only for SUCCESS or EXHAUSTED and stays
\* there; an attempt ends in SUCCESS exactly when the snapshot of that very
\* attempt has a qualifying channel, and what is returned is the first
\* qualifying channel of that snapshot, whatever earlier attempts saw.
C6_AttemptsAreStateless ==
    [][/\ status \in {"SUCCESS", "EXHAUSTED"} => UNCHANGED vars
       /\ status' # status => /\ status = "POLLING"
                              /\ status' \in {"SUCCESS", "EXHAUSTED"}
       /\ (AttemptStep /\ outcome'.exc.cls # "RpcError")
            => /\ status' = "SUCCESS" <=> WaitQualifying # {}
               /\ status' = "SUCCESS"
                    => /\ outcome'.ok
                       /\ outcome'.value = channels[First(WaitQualifying)]
       /\ ~AttemptStep => (status' # "SUCCESS" /\ outcome' = outcome)]_vars

\* success at a later attempt, after an attempt that found nothing
C6_Witness ==
    /\ status = "SUCCESS"
    /\ attempts >= 2
    /\ outcome.value = channels[1]

\* C7: when the snapshot of the first probe qualifies, the waiter returns
\* the matched channel after exactly one probe, without any sleep.
C7_FirstAttemptReturns ==
    [][(/\ attempts = 0
        /\ AttemptStep
        /\ WaitQualifying # {}
        /\ outcome'.exc.cls # "RpcError")
       => /\ status' = "SUCCESS"
          /\ pc' = "done"
          /\ attempts' = 1
          /\ sleeps' = 0
          /\ last_wait' = 0
          /\ outcome'.value = channels[First(WaitQualifying)]]_vars

\* a waiter returned from its first probe
C7_Witness ==
    /\ status = "SUCCESS"
    /\ attempts = 1
    /\ sleeps = 0
    /\ WaitQualifying # {}

\* C8: when every snapshot is empty, every probe fails and the waiter
\* terminates: it gives up once the overall timeout has elapsed.
C8_EmptySnapshotsTerminate ==
    <>(/\ status = "EXHAUSTED"
       /\ now >= Timeout(call)
       /\ isinstance(raised.exc, "Exception"))

\* a waiter that saw only empty snapshots gave up after several probes
C8_Witness ==
    /\ channels = <<>>
    /\ status = "EXHAUSTED"
    /\ attempts >= 2
    /\ isinstance(raised.exc, "NotFound")
    /\ now >= Timeout(call)

\* C9 as claimed: a waiter invocation lasts at most the overall timeout plus
\* one per-call deadline.
C9_OverrunOneDeadline ==
    status \in {"SUCCESS", "EXHAUSTED"}
    => now <= Timeout(call) + RpcDeadline(call)

\* the channels of the snapshot in the state the server waiter polls for
InExpectedState ==
    {i \in DOMAIN channels : channels[i].state = ExpectedState(call)}

\* C9 amended: a waiter invocation lasts at most the overall timeout plus
\* the duration of one probe.  A probe of a server waiter issues one channel
\* listing and one subchannel listing per channel in the expected state,
\* each with its own deadline; a probe of an xDS waiter issues one listing.
C9_OverrunOneProbe ==
    status \in {"SUCCESS", "EXHAUSTED"}
    => /\ now <= Timeout(call) + outcome.rpcs * RpcDeadline(call)
       /\ outcome.rpcs <= IF call.op \in ServerWaiters
                          THEN 1 + Cardinality(InExpectedState)
                          ELSE 1

\* a server waiter ended more than one deadline after its timeout
C9_Witness ==
    /\ call.op \in ServerWaiters
    /\ status = "EXHAUSTED"
    /\ outcome.rpcs = 2
    /\ now > Timeout(call) + RpcDeadline(call)

\* C10 as claimed: with an overall timeout above 2 * WaitMax, a waiter whose
\* probes all end in a NotFound miss gives up after two probes at least.
C10_TwoProbesBeforeExhaustion ==
    (/\ status = "EXHAUSTED"
     /\ Timeout(call) > 2 * WaitMax
     /\ isinstance(outcome.exc, "NotFound"))
    => attempts >= 2

\* C10 amended: a waiter gives up after a single probe only when that probe
\* ended less than WaitMax before the overall timeout (or after it); a first
\* probe that fails earlier is followed by a second one.
C10_SecondProbeUnlessFirstRunsLate ==
    [][(status = "POLLING" /\ status' = "EXHAUSTED" /\ attempts' = 1)
       => (IF pc = "probe" THEN now' ELSE now) + WaitMax >= Timeout(call)]_vars

\* a waiter whose probes all missed gave up after two probes or more
C10_Witness ==
    /\ status = "EXHAUSTED"
    /\ Timeout(call) > 2 * WaitMax
    /\ isinstance(outcome.exc, "NotFound")
    /\ attempts >= 2
    /\ sleeps >= 1

\* C11: on exhaustion the error of a waiter carries the failure of the last
\* attempt and nothing of the earlier ones: the exception it reports is the
\* one the last probe raised, and the note is attached or not according to
\* the class of that exception alone.
C11_LastFailureOnly ==
    status = "EXHAUSTED"
    => /\ ~outcome.ok
       /\ raised.exc = outcome.exc
       /\ raised.notes =
             IF /\ call.op = "wait_for_server_channel_ready"
                /\ outcome.exc.cls = "ChannelNotFound"
             THEN {NoteServer} ELSE {}

\* wait_for_server_channel_ready gave up after a first probe that failed in
\* the transport and a second one that found no READY channel
C11_Witness ==
    /\ call.op = "wait_for_server_channel_ready"
    /\ status = "EXHAUSTED"
    /\ attempts = 2
    /\ failures = {"RpcError", "ChannelNotFound"}
    /\ raised.exc.cls = "ChannelNotFound"
    /\ raised.notes = {NoteServer}

\* C12: a waiter whose probes all fail with a transport error is not
\* stopped by them: it polls as long as the overall timeout has not elapsed,
\* and the error it raises once the timeout has elapsed reports the
\* transport failure, not a ChannelNotFound or ChannelNotActive.
C12_TransportFailuresExhaust ==
    (failures = {"RpcError"} /\ ~outcome.ok)
    => /\ status \in {"POLLING", "EXHAUSTED"}
       /\ status = "POLLING" => now < Timeout(call)
       /\ status = "EXHAUSTED"
            => /\ now >= Timeout(call)
               /\ raised.exc = RpcError
               /\ ~isinstance(raised.exc, "NotFound")
               /\ raised.notes = {}

\* a waiter gave up after three probes that all failed in the transport
C12_Witness ==
    /\ failures = {"RpcError"}
    /\ status = "EXHAUSTED"
    /\ attempts = 3
    /\ raised.exc.cls = "RpcError"

(***************************************************************************)
(* Properties of get_active_server_channel_socket.                         *)
(***************************************************************************)
\* the first channel of the snapshot that is READY and has a READY
\* subchannel
FirstReady == channels[First(Qualifying)]

\* the subchannel of the snapshot a socket belongs to
SubchannelOf(socket) ==
    channels[socket.socket_id[1]].subchannels[socket.socket_id[2]]

\* C13: when the snapshot has a READY channel with a READY subchannel and
\* the first listed subchannel of the first such channel has a socket,
\* get_active_server_channel_socket returns the first socket of that first
\* subchannel; further subchannels and further sockets are reported by a
\* warning each and have no other effect.
C13_FirstSocketOfFirstSubchannel ==
    (/\ Done("get_active_server_channel_socket")
     /\ NoTransportFailure
     /\ Qualifying # {}
     /\ relisted = FirstReady.subchannels
     /\ FirstReady.subchannels[1].sockets # <<>>)
    => /\ outcome.ok
       /\ outcome.value = FirstReady.subchannels[1].sockets[1]
       /\ WarnSubchannels \in warnings <=> Len(FirstReady.subchannels) > 1
       /\ WarnSockets \in warnings
            <=> Len(FirstReady.subchannels[1].sockets) > 1
       /\ warnings \subseteq {WarnSubchannels, WarnSockets}

\* the socket was returned from the second channel, whose first subchannel
\* has two sockets and is followed by another subchannel
C13_Witness ==
    /\ Done("get_active_server_channel_socket")
    /\ outcome.ok
    /\ outcome.value.socket_id = <<2, 1, 1>>
    /\ Len(channels[2].subchannels) = 2
    /\ Len(channels[2].subchannels[1].sockets) = 2
    /\ warnings = {WarnSubchannels, WarnSockets}

C19_SocketOfReadySubchannel ==
    (Done("get_active_server_channel_socket") /\ outcome.ok)
    => SubchannelOf(outcome.value).state = "READY"

\* C20: get_active_server_channel_socket returns a socket or raises an
\* error of the NotFound family, also when the second listing of the
\* subchannels is empty or the subchannel taken has no socket.
C20_OnlyNotFoundErrors ==
    (Done("get_active_server_channel_socket") /\ NoTransportFailure)
    => (outcome.ok \/ isinstance(outcome.exc, "NotFound"))

(***************************************************************************)
(* Transport failures and the arguments of the scans.                      *)
(***************************************************************************)
\* the channels whose subchannels a scan with check_subchannel=True lists:
\* those in the expected state, up to the first one that qualifies
Candidates ==
    {i \in DOMAIN channels :
        /\ channels[i].state = call.expected_state
        /\ Qualifying # {} => i <= First(Qualifying)}

\* the number of channelz RPCs a scan issues when none of them fails
ScanRpcs ==
    IF call.op = "find_server_channel_with_state" /\ call.check_subchannel
    THEN 1 + Cardinality(Candidates)
    ELSE 1

\* C15: when a channelz RPC of a scan (the channel listing, or the
\* subchannel listing of a candidate channel) fails in the transport,
\* find_server_channel_with_state / find_active_xds_channel raise that
\* failure and issue no further RPC: the scan neither goes on to the next
\* channel nor raises ChannelNotFound or ChannelNotActive in its place.
C15_TransportFailurePropagates ==
    (/\ \/ Done("find_server_channel_with_state")
        \/ Done("find_active_xds_channel")
     /\ call.fail \in 1..ScanRpcs)
    => /\ ~outcome.ok
       /\ outcome.exc = RpcError
       /\ ~isinstance(outcome.exc, "NotFound")
       /\ outcome.rpcs = call.fail

\* the subchannel listing of the first channel failed in the transport
\* while the second channel qualifies: the scan raised the failure
C15_Witness ==
    /\ Done("find_server_channel_with_state")
    /\ call.check_subchannel
    /\ call.fail = 2
    /\ Len(channels) = 2
    /\ channels[1].state = call.expected_state
    /\ ~HasSubchannelInState(channels[1], call.expected_state)
    /\ Qualifies(2)
    /\ outcome.exc = RpcError

\* the channels of the snapshot in the state the scan was asked for
InAskedState ==
    {i \in DOMAIN channels : channels[i].state = call.expected_state}

\* C17: with check_subchannel=False find_server_channel_with_state returns
\* the first channel of the snapshot in the expected state, whatever its
\* subchannels (also when it has none), raises ChannelNotFound when there is
\* no such channel, and issues the channel listing as its only RPC.
C17_NoSubchannelCheck ==
    (/\ Done("find_server_channel_with_state")
     /\ ~call.check_subchannel
     /\ call.fail # 1)
    => /\ outcome.rpcs = 1
       /\ IF InAskedState # {}
          THEN outcome.ok /\ outcome.value = channels[First(InAskedState)]
          ELSE ~outcome.ok /\ outcome.exc.cls = "ChannelNotFound"

\* the second channel, in the expected state and without subchannels, was
\* returned; a subchannel listing would have failed in the transport
C17_Witness ==
    /\ Done("find_server_channel_with_state")
    /\ ~call.check_subchannel
    /\ call.fail = 2
    /\ outcome.ok
    /\ outcome.value.channel_id = 2
    /\ outcome.value.subchannels = <<>>
    /\ outcome.rpcs = 1

C18_ProbesAndSleepsAlternate ==
    /\ pc \in {"probe", "sleep", "done"}
    /\ pc = "done" <=> status \in {"SUCCESS", "EXHAUSTED"}
    /\ pc = "probe" => attempts = sleeps
    /\ pc = "sleep" => /\ ~outcome.ok
                       /\ attempts = Count(sleeps)
    /\ status = "SUCCESS" => /\ outcome.ok
                             /\ attempts = Count(sleeps)

\* a waiter returned from its second probe, after one sleep
C18_Witness ==
    /\ status = "SUCCESS"
    /\ pc = "done"
    /\ attempts = 2
    /\ sleeps = 1
    /\ outcome.ok

====
